---- MODULE Spec2Model ----
(***************************************************************************)
(* Model of create_temp_font.py: a script that allocates a zero-filled     *)
(* 256*16 byte buffer, pokes the row bitmaps of five glyphs into it,       *)
(* writes the buffer to assets/default_font.bin and reports on stdout.     *)
(*                                                                         *)
(* One run of the script is the sequence                                   *)
(*   allocate (Init / Rerun), Assign x 40, Open, Write, WithExit, Report.  *)
(* The file system (the assets directory and the target file) outlives a   *)
(* run, so the script can be run again against what the last run left.     *)
(***************************************************************************)
EXTENDS Integers, Sequences, FiniteSets

VARIABLES
    font_data,   \* the bytearray: a function from 0..len-1 to byte values
    ip,          \* index of the next byte assignment of lines 10-57
    pc,          \* "populate", "open", "write", "close", "print", "exited"
    exc,         \* the unhandled exception of this run, or "none"
    handleOpen,  \* the file object f of line 59 is open
    pending,     \* f.write's data sits in f's buffer, not yet in the file
    dirState,    \* the assets directory: "ok", "missing" or "denied"
    fileExists,  \* assets/default_font.bin exists
    fileData,    \* its contents, a sequence of bytes (<<>> when absent)
    stdout,      \* the lines this run has written to standard output
    runs,        \* number of the current run of the script
    order,       \* the order in which the assignments are executed
    outputs      \* history: the file contents found after each successful run

vars == <<font_data, ip, pc, exc, handleOpen, pending, dirState, fileExists,
          fileData, stdout, runs, order, outputs>>

----------------------------------------------------------------------------
\* Bounds of the model.

\* How many times the script is run against the same file system.
MaxRuns == 3

\* How many bytes reach the file when a write or flush fails part-way:
\* none, a prefix ending inside the record of 'A', all but the last byte.
PartialLens == {0, 1047, 4095}

\* What the target file holds before the first run, when it exists: an empty
\* file, a short file, and a file longer than the font blob.
OldFiles == { <<>>, <<255, 254, 253>>, [i \in 1..5000 |-> 170] }

----------------------------------------------------------------------------
\* The program's data.

NumGlyphs == 256
GlyphRows == 16

\* A buffer of 8 rows per glyph.
BufferSizeHalf == NumGlyphs * 8

\* bytearray(256 * 16)
BufferSize == NumGlyphs * GlyphRows

\* bytearray(n): n zero bytes, indexed from 0.
Bytearray(n) == [i \in 0..(n - 1) |-> 0]

\* len(b)
BufLen(b) == Cardinality(DOMAIN b)

\* The byte assignments of lines 10-57, each font_data[code * 16 + row] = value
\* written <<code, row, value>>.

\* 'e' with row 7 closed on the right like the 'o' it was copied from.
GlyphEClosedRow ==
    << <<\h65, 4, \b00111100>>, <<\h65, 5, \b01100110>>,
       <<\h65, 6, \b11111111>>, <<\h65, 7, \b11000011>>,
       <<\h65, 8, \b11000000>>, <<\h65, 9, \b01100110>>,
       <<\h65, 10, \b00111100>> >>

\* 'H' whose crossbar line kept the row index of the line it was copied from.
GlyphHRepeatedRow ==
    << <<\h48, 2, \b11000011>>, <<\h48, 3, \b11000011>>,
       <<\h48, 4, \b11000011>>, <<\h48, 4, \b11111111>>,
       <<\h48, 6, \b11000011>>, <<\h48, 7, \b11000011>>,
       <<\h48, 8, \b11000011>>, <<\h48, 9, \b11000011>> >>

\* 'o' drawn one row too tall.
GlyphOExtraRow ==
    << <<\h6F, 4, \b00111100>>, <<\h6F, 5, \b01100110>>,
       <<\h6F, 6, \b11000011>>, <<\h6F, 7, \b11000011>>,
       <<\h6F, 8, \b11000011>>, <<\h6F, 9, \b11000011>>,
       <<\h6F, 10, \b01100110>>, <<\h6F, 11, \b00111100>> >>

\* Lines 10-17.
GlyphA ==
    << <<\h41, 2, \b00111100>>, <<\h41, 3, \b01100110>>,
       <<\h41, 4, \b11000011>>, <<\h41, 5, \b11000011>>,
       <<\h41, 6, \b11111111>>, <<\h41, 7, \b11000011>>,
       <<\h41, 8, \b11000011>>, <<\h41, 9, \b11000011>> >>

\* Lines 20-27.
GlyphH ==
    << <<\h48, 2, \b11000011>>, <<\h48, 3, \b11000011>>,
       <<\h48, 4, \b11000011>>, <<\h48, 5, \b11111111>>,
       <<\h48, 6, \b11000011>>, <<\h48, 7, \b11000011>>,
       <<\h48, 8, \b11000011>>, <<\h48, 9, \b11000011>> >>

\* Lines 30-36.
GlyphE ==
    << <<\h65, 4, \b00111100>>, <<\h65, 5, \b01100110>>,
       <<\h65, 6, \b11111111>>, <<\h65, 7, \b11000000>>,
       <<\h65, 8, \b11000000>>, <<\h65, 9, \b01100110>>,
       <<\h65, 10, \b00111100>> >>

\* Lines 39-48.
GlyphL ==
    << <<\h6C, 1, \b00111000>>, <<\h6C, 2, \b00011000>>,
       <<\h6C, 3, \b00011000>>, <<\h6C, 4, \b00011000>>,
       <<\h6C, 5, \b00011000>>, <<\h6C, 6, \b00011000>>,
       <<\h6C, 7, \b00011000>>, <<\h6C, 8, \b00011000>>,
       <<\h6C, 9, \b00011000>>, <<\h6C, 10, \b00111100>> >>

\* Lines 51-57.
GlyphO ==
    << <<\h6F, 4, \b00111100>>, <<\h6F, 5, \b01100110>>,
       <<\h6F, 6, \b11000011>>, <<\h6F, 7, \b11000011>>,
       <<\h6F, 8, \b11000011>>, <<\h6F, 9, \b01100110>>,
       <<\h6F, 10, \b00111100>> >>

\* All of them, in source order.
Stmts == GlyphA \o GlyphH \o GlyphE \o GlyphL \o GlyphO

NumStmts == Len(Stmts)

\* The index computed as if a glyph record were 64 bytes long.
OffsetStride64(s) == s[1] * 64 + s[2]

\* The index expression code * 16 + row of an assignment.
Offset(s) == s[1] * 16 + s[2]

\* The order of the source: first statement first, front to back.
SourceOrder == <<0, "fwd">>

\* The statement executed k-th under order o = <<shift, direction>>.
OrderIndex(o, k) ==
    LET j == ((k - 1 + o[1]) % NumStmts) + 1
    IN  IF o[2] = "fwd" THEN j ELSE NumStmts + 1 - j

CurrentStmt == Stmts[OrderIndex(order, ip)]

\* bytes(b): what f.write(b) hands to the file, first byte first.
BufferBytes(b) == [i \in 1..BufLen(b) |-> b[i - 1]]

\* The first n bytes of a byte sequence.
Prefix(s, n) == SubSeq(s, 1, n)

\* Mode 'ab': the old contents are kept and the write lands after them.
OpenedForAppend(old) == old

\* open(..., 'wb') truncates: the contents of the file right after the open.
OpenedContents(old) == <<>>

\* The directories are created on demand, so only a denied one fails.
OpenErrorMakesDir(d) == IF d = "denied" THEN "PermissionError" ELSE "none"

\* The exception open() raises for a state of the assets directory.
OpenError(d) ==
    IF d = "missing" THEN "FileNotFoundError"
    ELSE IF d = "denied" THEN "PermissionError"
    ELSE "none"

\* The line print() writes.
Message == "Created default_font.bin"

\* The exit status of the interpreter: 1 after an unhandled exception.
ExitCode == IF exc = "none" THEN 0 ELSE 1

----------------------------------------------------------------------------
\* The file system before the first run.

FileSystemInit ==
    /\ dirState \in {"ok", "missing", "denied"}
    /\ \/ fileExists = FALSE /\ fileData = <<>>
       \/ dirState # "missing" /\ fileExists = TRUE /\ fileData \in OldFiles

\* Line 7 of a fresh process.
FreshProcess(b, i, p, e, h, q, out) ==
    /\ b = Bytearray(BufferSize)
    /\ i = 1
    /\ p = "populate"
    /\ e = "none"
    /\ h = FALSE
    /\ q = FALSE
    /\ out = <<>>

Init ==
    /\ FreshProcess(font_data, ip, pc, exc, handleOpen, pending, stdout)
    /\ FileSystemInit
    /\ runs = 1
    /\ order = SourceOrder
    /\ outputs = <<>>

----------------------------------------------------------------------------
\* Lines 10-57: one byte assignment font_data[off] = v.
Assign ==
    /\ pc = "populate"
    /\ LET s   == CurrentStmt
           off == Offset(s)
           v   == s[3]
       IN  IF off \notin DOMAIN font_data
           THEN /\ exc' = "IndexError"
                /\ pc' = "exited"
                /\ UNCHANGED <<font_data, ip>>
           ELSE IF v \notin 0..255
           THEN /\ exc' = "ValueError"
                /\ pc' = "exited"
                /\ UNCHANGED <<font_data, ip>>
           ELSE /\ font_data' = [font_data EXCEPT ![off] = v]
                /\ ip' = ip + 1
                /\ pc' = IF ip + 1 > NumStmts THEN "open" ELSE "populate"
                /\ exc' = exc
    /\ UNCHANGED <<handleOpen, pending, dirState, fileExists, fileData,
                   stdout, runs, order, outputs>>

\* Line 59: open('assets/default_font.bin', 'wb').
Open ==
    /\ pc = "open"
    /\ IF OpenError(dirState) # "none"
       THEN /\ exc' = OpenError(dirState)
            /\ pc' = "exited"
            /\ UNCHANGED <<handleOpen, fileExists, fileData>>
       ELSE /\ handleOpen' = TRUE
            /\ fileExists' = TRUE
            /\ fileData' = OpenedContents(fileData)
            /\ pc' = "write"
            /\ exc' = exc
    /\ UNCHANGED <<font_data, ip, pending, dirState, stdout, runs, order,
                   outputs>>

\* Line 60: f.write(font_data). The bytes either stay in f's buffer until
\* the file is closed, or go to the file; a write that fails part-way
\* (disk full, I/O error) raises OSError with a prefix in the file.
Write ==
    /\ pc = "write"
    /\ \/ /\ pending' = TRUE
          /\ UNCHANGED <<fileData, exc>>
       \/ /\ fileData' = fileData \o BufferBytes(font_data)
          /\ UNCHANGED <<pending, exc>>
       \/ \E n \in PartialLens :
            /\ n < BufLen(font_data)
            /\ fileData' = fileData \o Prefix(BufferBytes(font_data), n)
            /\ exc' = "OSError"
            /\ UNCHANGED pending
    /\ pc' = "close"
    /\ UNCHANGED <<font_data, ip, handleOpen, dirState, fileExists, stdout,
                   runs, order, outputs>>

\* The exception of the body is swallowed and the script carries on.
AfterWithSwallow(e) == "print"

\* A failed write sends the script back to open the file again.
AfterWithRetry(e) == IF e = "none" THEN "print" ELSE "open"

\* What a with-block does with the exception of its body: f.__exit__
\* returns a false value, so the exception propagates and ends the script.
AfterWith(e) == IF e = "none" THEN "print" ELSE "exited"

\* f.close() placed after the write, without a with-block: skipped on error.
ClosedOnSuccessOnly(e) == e # "none"

\* The handle after f.__exit__: closed.
ClosedHandle(e) == FALSE

\* Lines 59-60: leaving the with-block, f.__exit__ closes f. The close
\* flushes what is still buffered (which can fail part-way) and releases
\* the handle whether or not the flush or the body failed.
WithExit ==
    /\ pc = "close"
    /\ \/ /\ ~pending
          /\ UNCHANGED <<fileData, exc>>
       \/ /\ pending
          /\ fileData' = fileData \o BufferBytes(font_data)
          /\ UNCHANGED exc
       \/ /\ pending
          /\ \E n \in PartialLens :
               /\ n < BufLen(font_data)
               /\ fileData' = fileData \o Prefix(BufferBytes(font_data), n)
               /\ exc' = "OSError"
    /\ pending' = FALSE
    /\ handleOpen' = ClosedHandle(exc')
    /\ pc' = AfterWith(exc')
    /\ UNCHANGED <<font_data, ip, dirState, fileExists, stdout, runs, order,
                   outputs>>

\* Line 62: print("Created default_font.bin"), after which the script falls
\* off its end and the process exits with status 0.
Report ==
    /\ pc = "print"
    /\ stdout' = Append(stdout, Message)
    /\ pc' = "exited"
    /\ outputs' = Append(outputs, fileData)
    /\ UNCHANGED <<font_data, ip, exc, handleOpen, pending, dirState,
                   fileExists, fileData, runs, order>>

\* The script is started again: a new process, the same file system.
Rerun ==
    /\ pc = "exited"
    /\ runs < MaxRuns
    /\ FreshProcess(font_data', ip', pc', exc', handleOpen', pending', stdout')
    /\ runs' = runs + 1
    /\ UNCHANGED <<dirState, fileExists, fileData, order, outputs>>

Next == Assign \/ Open \/ Write \/ WithExit \/ Report \/ Rerun

Spec == Init /\ [][Next]_vars

\* The interpreter keeps executing statements until the script ends.
LiveSpec == Spec /\ WF_vars(Assign \/ Open \/ Write \/ WithExit \/ Report)

----------------------------------------------------------------------------
\* The populate phase alone, run under other orders of the assignments:
\* every rotation of the source order, front to back and back to front.

Orders == (0..(NumStmts - 1)) \X {"fwd", "rev"}

OrderInit ==
    /\ FreshProcess(font_data, ip, pc, exc, handleOpen, pending, stdout)
    /\ dirState = "ok"
    /\ fileExists = FALSE
    /\ fileData = <<>>
    /\ runs = 1
    /\ order \in Orders
    /\ outputs = <<>>

OrderSpec == OrderInit /\ [][Assign]_vars

\* The buffer the assignments produce in source order, statements k.. applied
\* to b one after the other.
RECURSIVE ApplyFrom(_, _)
ApplyFrom(b, k) ==
    IF k > NumStmts THEN b
    ELSE ApplyFrom([b EXCEPT ![Offset(Stmts[k])] = Stmts[k][3]], k + 1)

SourceResult == ApplyFrom(Bytearray(BufferSize), 1)

----------------------------------------------------------------------------
\* The documented file format: <<code point, first row, row patterns>>.

ListedGlyphs ==
    { <<\h41, 2, <<\h3C, \h66, \hC3, \hC3, \hFF, \hC3, \hC3, \hC3>> >>,
      <<\h48, 2, <<\hC3, \hC3, \hC3, \hFF, \hC3, \hC3, \hC3, \hC3>> >>,
      <<\h65, 4, <<\h3C, \h66, \hFF, \hC0, \hC0, \h66, \h3C>> >>,
      <<\h6C, 1, <<\h38, \h18, \h18, \h18, \h18, \h18, \h18, \h18, \h18, \h3C>> >>,
      <<\h6F, 4, <<\h3C, \h66, \hC3, \hC3, \hC3, \h66, \h3C>> >> }

\* The documented bytes as pairs <<offset, value>>, offset = code*16 + row.
ListedBytes ==
    UNION { { <<g[1] * 16 + g[2] + (k - 1), g[3][k]>> : k \in 1..Len(g[3]) } :
            g \in ListedGlyphs }

ListedOffsets == { p[1] : p \in ListedBytes }

\* The documented file: the listed bytes, zero elsewhere, 4096 bytes.
ListedFile ==
    [i \in 1..4096 |->
        IF i - 1 \in ListedOffsets
        THEN (CHOOSE p \in ListedBytes : p[1] = i - 1)[2]
        ELSE 0]

Populated == ip = NumStmts + 1
Succeeded == pc = "exited" /\ exc = "none"
Failed    == pc = "exited" /\ exc # "none"

----------------------------------------------------------------------------
\* C1: once every assignment has run, each byte at offset code*16+row of the
\* five populated glyphs holds the documented row pattern, in the buffer and,
\* after a successful run, in the file.
C1_GlyphBytes ==
    /\ Populated =>
         \A p \in ListedBytes :
            p[1] \in DOMAIN font_data /\ font_data[p[1]] = p[2]
    /\ Succeeded =>
         \A p \in ListedBytes :
            p[1] + 1 \in DOMAIN fileData /\ fileData[p[1] + 1] = p[2]

C1_Witness ==
    /\ Succeeded
    /\ fileExists
    /\ Len(fileData) = 4096
    /\ fileData[\h41 * 16 + 2 + 1] = \h3C
    /\ fileData[\h65 * 16 + 7 + 1] = \hC0
    /\ fileData[\h6C * 16 + 10 + 1] = \h3C

\* C2: in every state every byte of the buffer outside the documented row
\* offsets is 0 (offset 0, the 251 other records, the unset rows of the five
\* populated ones); after a successful run the same holds of the file.
C2_RestIsZero ==
    /\ \A off \in DOMAIN font_data :
          off \notin ListedOffsets => font_data[off] = 0
    /\ Succeeded =>
         \A i \in DOMAIN fileData :
            (i - 1) \notin ListedOffsets => fileData[i] = 0

C2_Witness ==
    /\ Succeeded
    /\ font_data[\h41 * 16 + 2] # 0
    /\ font_data[\h41 * 16 + 1] = 0
    /\ font_data[0] = 0
    /\ Len(fileData) = 4096
    /\ fileData[1] = 0
    /\ fileData[\h6F * 16 + 11 + 1] = 0

\* C3: the buffer is 4096 bytes long in every state, and the file a
\* successful run leaves is 4096 bytes long.
C3_Length ==
    /\ BufLen(font_data) = 4096
    /\ DOMAIN font_data = 0..4095
    /\ Succeeded => fileExists /\ Len(fileData) = 4096

C3_Witness ==
    /\ Succeeded
    /\ runs = 1
    /\ BufLen(font_data) = 4096
    /\ Len(fileData) = 4096
    /\ font_data[\h48 * 16 + 5] = \hFF

\* C4: with the assets directory missing the open fails: the file is never
\* opened or written, the run ends with a non-zero exit status, no file
\* exists at the target path, and nothing is printed.
C4_MissingDirectory ==
    dirState = "missing" =>
        /\ pc \notin {"write", "close", "print"}
        /\ ~handleOpen
        /\ ~fileExists /\ fileData = <<>>
        /\ stdout = <<>>
        /\ pc = "exited" => exc = "FileNotFoundError" /\ ExitCode # 0

C4_Witness ==
    /\ dirState = "missing"
    /\ pc = "exited"
    /\ Populated
    /\ exc = "FileNotFoundError"
    /\ ExitCode = 1
    /\ ~fileExists

\* C5: the file contents found after every successful run are the same as
\* after the first one, and they are the documented file whatever the file
\* held before.
C5_Idempotent ==
    /\ \A i \in DOMAIN outputs : outputs[i] = outputs[1] /\ outputs[i] = ListedFile
    /\ Succeeded => fileData = outputs[Len(outputs)]

C5_Witness ==
    /\ Succeeded
    /\ Len(outputs) >= 2
    /\ outputs[2] = outputs[1]
    /\ fileData = outputs[1]

\* C6: once the run is past the with-block (reporting or terminated, whether
\* it succeeded or the write failed) the file handle is closed.
C6_HandleReleased ==
    pc \in {"print", "exited"} => ~handleOpen

C6_Witness ==
    /\ pc = "exited"
    /\ exc = "OSError"
    /\ fileExists
    /\ ~handleOpen

\* C7: the confirmation is printed at most once; a terminated run printed it
\* exactly once if it succeeded and not at all if it failed; and when it is
\* printed the whole buffer is in the file and the handle is closed.
C7_Confirmation ==
    /\ Len(stdout) <= 1
    /\ Succeeded => stdout = <<"Created default_font.bin">>
    /\ Failed => stdout = <<>>
    /\ stdout # <<>> =>
          /\ exc = "none"
          /\ ~handleOpen /\ ~pending
          /\ fileExists /\ fileData = BufferBytes(font_data)

C7_Witness ==
    /\ Succeeded
    /\ stdout = <<"Created default_font.bin">>
    /\ ~handleOpen
    /\ Len(fileData) = 4096

\* The order of the steps of one run; a terminated run is followed only by
\* a new run, which starts from a freshly allocated buffer.
StepOrder ==
    \/ pc = "populate" /\ pc' \in {"populate", "open"} /\ ip' = ip + 1
    \/ pc = "open" /\ pc' = "write" /\ exc' = "none"
    \/ pc = "open" /\ pc' = "exited" /\ exc' # "none"
    \/ pc = "write" /\ pc' = "close"
    \/ pc = "close" /\ pc' = "print" /\ exc' = "none"
    \/ pc = "close" /\ pc' = "exited" /\ exc' # "none"
    \/ pc = "print" /\ pc' = "exited" /\ exc' = "none"
    \/ /\ pc = "exited" /\ pc' = "populate" /\ runs' = runs + 1
       /\ ip' = 1 /\ font_data' = [i \in 0..4095 |-> 0]

\* The buffer changes only in the populate phase, and the file is touched
\* only once the buffer is complete, with bytes taken from that buffer.
PopulateBeforeWrite ==
    /\ pc \notin {"populate", "exited"} => font_data' = font_data
    /\ pc = "open" => Populated
    /\ (fileData' # fileData \/ fileExists' # fileExists \/ handleOpen' # handleOpen) =>
          /\ Populated
          /\ font_data = SourceResult
          /\ Len(fileData') <= 4096
          /\ fileData' = SubSeq(BufferBytes(font_data), 1, Len(fileData'))

\* C8: the steps of a run occur in the order allocate, populate, write,
\* report, exit, none repeated; the buffer is complete before the file is
\* opened; and every run terminates.
C8_Linear ==
    /\ [][StepOrder]_vars
    /\ [][PopulateBeforeWrite]_vars
    /\ []<>(pc = "exited")

C8_Witness ==
    /\ Succeeded
    /\ runs = 2
    /\ Populated
    /\ stdout # <<>>

\* The assignment about to run stores a value in 1..255 at an offset in
\* 0..4095 that lies in the record of its own glyph (row 0..15), and no
\* assignment has raised.
C9_StatementInRange ==
    /\ pc = "populate" =>
          LET s == CurrentStmt IN
          /\ s[1] \in 0..255
          /\ s[2] \in 0..15
          /\ s[3] \in 1..255
          /\ Offset(s) \in 0..4095
          /\ Offset(s) - s[1] * 16 \in 0..15
          /\ Offset(s) \in DOMAIN font_data
    /\ exc \notin {"IndexError", "ValueError"}
    /\ pc = "exited" => Populated

\* C9: every assignment stores a value in 1..255 at an offset in 0..4095
\* that lies in the record of its own glyph (row 0..15), none raises, and
\* the populate phase always reaches the open of the file.
C9_InRange ==
    /\ []C9_StatementInRange
    /\ (pc = "populate") ~> (pc = "open")

C9_Witness ==
    /\ pc = "open"
    /\ Populated
    /\ exc = "none"
    /\ font_data[\h6C * 16 + 1] = \h38

\* The number of non-zero bytes of a buffer.
NonZero(b) == Cardinality({ off \in DOMAIN b : b[off] # 0 })

\* C10: under every order of the assignments that is tried, an assignment
\* never targets an offset assigned before, the buffer has as many non-zero
\* bytes as assignments were made (40 at the end), and the final buffer is
\* the one the source order produces.
C10_Commute ==
    /\ pc = "populate" => font_data[Offset(CurrentStmt)] = 0
    /\ NonZero(font_data) = ip - 1
    /\ pc = "open" => /\ NonZero(font_data) = 40
                      /\ font_data = SourceResult

C10_Witness ==
    /\ pc = "open"
    /\ order = <<7, "rev">>
    /\ NonZero(font_data) = 40
    /\ font_data = SourceResult

====
